---- MODULE Spec2Model ----
(***************************************************************************)
(* Polsa Grant Backend: the airtime proxy with its in-memory site state    *)
(* (isSiteOnline, claimLimit, claimsToday), its transaction history, the   *)
(* PIN-gated admin router and the public /send-airtime handler.            *)
(*                                                                         *)
(* Node runs every handler to completion on one thread; the only place a   *)
(* handler is suspended is `await axios.post(...)`.  Hence one action per  *)
(* synchronous handler, and two per asynchronous handler: the part up to   *)
(* the await and the part after the provider call has settled.             *)
(*                                                                         *)
(* The rate limiter, CORS and the JSON body parser run before the handlers  *)
(* and are not modelled: the requests here are the ones they let through.  *)
(*                                                                         *)
(* Strings that the code inspects character by character (mobile_number,   *)
(* limit) are sequences of one-character strings.  A field missing from    *)
(* the request body is the empty string / empty sequence: `!x` and         *)
(* `x !== ADMIN_PIN` and parseInt treat both alike.                         *)
(***************************************************************************)
EXTENDS Integers, Sequences, FiniteSets

\* ------------------------------------------------------------------ bounds

\* Number of asynchronous requests (public claims and admin sends) that arrive.
NumReqs == 2

\* Largest limit an administrator sends to /set-limit.
MaxLimit == 2

\* The clock runs from 0 to MaxNow; a calendar day has TicksPerDay ticks.
MaxNow == 1

\* A calendar day, 86400000 ms in toISOString's dates: the clock ticks once a day.
TicksPerDay == 1

\* ------------------------------------------------------------------ configuration

ADMIN_PIN == "226688"

ADMIN_PHONE == <<"0", "9", "1", "6", "1", "0", "4", "1", "4", "1", "9">>

\* process.env.API_KEY is not set in the modelled deployment.
EnvApiKey == ""

DefaultApiKey == "67023380ece9a9561cac9b5f208907e0ab85063b"

API_KEY == IF EnvApiKey # "" THEN EnvApiKey ELSE DefaultApiKey

AMOUNT == 100

Undefined == "undefined"

\* siteState has no totalAmountToday property until /admin/state adds one.
Absent == 0 - 1

\* ------------------------------------------------------------------ pure helpers

Digits == {"0", "1", "2", "3", "4", "5", "6", "7", "8", "9"}

DigitChar(n) == CASE n = 0 -> "0" [] n = 1 -> "1" [] n = 2 -> "2" [] n = 3 -> "3"
                  [] n = 4 -> "4" [] n = 5 -> "5" [] n = 6 -> "6" [] n = 7 -> "7"
                  [] n = 8 -> "8" [] OTHER -> "9"

DigitVal(c) == CHOOSE n \in 0..9 : DigitChar(n) = c

\* /^0(70|80|81|90|91)\d{8}$/.test(s)
phoneRegex(s) ==
    /\ Len(s) = 11
    /\ s[1] = "0"
    /\ <<s[2], s[3]>> \in {<<"7", "0">>, <<"8", "0">>, <<"8", "1">>, <<"9", "0">>, <<"9", "1">>}
    /\ \A i \in 4..11 : s[i] \in Digits

\* const networkIds = { 'MTN': 1, 'Glo': 2, '9mobile': 3, 'Airtel': 4 }; networkIds[network]
networkIds(network) ==
    CASE network = "MTN" -> 1
      [] network = "Glo" -> 2
      [] network = "9mobile" -> 3
      [] network = "Airtel" -> 4
      [] OTHER -> Absent

\* JavaScript's a || b on values that are strings or Undefined.
Truthy(a) == a # Undefined /\ a # ""

OrElse(a, b) == IF Truthy(a) THEN a ELSE b

\* parseInt(s, 10): skip leading blanks, an optional sign, then the longest
\* run of digits; NaN when there is no digit.  NaN is modelled as Absent - 1,
\* a value that is neither a limit nor "no property".
NaN == 0 - 1000000

RECURSIVE SkipBlanks(_)
SkipBlanks(s) == IF s # <<>> /\ Head(s) = " " THEN SkipBlanks(Tail(s)) ELSE s

RECURSIVE DigitRun(_, _)
DigitRun(s, acc) ==
    IF s # <<>> /\ Head(s) \in Digits
    THEN DigitRun(Tail(s), acc * 10 + DigitVal(Head(s)))
    ELSE acc

parseInt(raw) ==
    LET s == SkipBlanks(raw)
        neg == s # <<>> /\ Head(s) = "-"
        body == IF s # <<>> /\ Head(s) \in {"-", "+"} THEN Tail(s) ELSE s
    IN  IF body = <<>> \/ Head(body) \notin Digits
        THEN NaN
        ELSE IF neg THEN 0 - DigitRun(body, 0) ELSE DigitRun(body, 0)

isNaN(n) == n = NaN

\* new Date().toISOString(): the date part before 'T' and the time after it.
toISOString(t) == [day |-> t \div TicksPerDay, time |-> t % TicksPerDay]

\* tx.date.startsWith(today), today = new Date().toISOString().split('T')[0]
startsWith(date, today) == date.day = today

\* ------------------------------------------------------------------ inputs

Reqs == 1..NumReqs

\* Request bodies the clients send: a network the provider knows, or none;
\* the admin phone, a well formed phone that is not the admin's, a phone that
\* is too short, or none.
Networks == {"MTN", ""}

UserPhone == <<"0", "8", "0", "1", "2", "3", "4", "5", "6", "7", "8">>

ShortPhone == <<"0", "8", "1", "1", "2", "3", "4", "5">>

Phones == {ADMIN_PHONE, UserPhone, ShortPhone, <<>>}

Pins == {ADMIN_PIN, "000000", ""}

Limits == {<<DigitChar(n)>> : n \in 0..MaxLimit} \cup {<<"-", "1">>, <<"a", "b">>, <<"1", "x">>}

\* How the promise returned by axios.post settles: fulfilled (2xx), rejected
\* with error.response (non-2xx, with the body's detail and message), rejected
\* with error.request only (no response), rejected with neither.
Settled(kind, status, detail, message) ==
    [kind |-> kind, status |-> status, detail |-> detail, message |-> message]

ProviderOutcomes ==
    { Settled("fulfilled", 200, Undefined, "Airtime sent"),
      Settled("fulfilled", 200, Undefined, Undefined),
      Settled("response", 422, "Insufficient balance", "Unprocessable"),
      Settled("response", 429, Undefined, "Too many requests"),
      Settled("response", 503, Undefined, Undefined),
      Settled("request", 0, Undefined, Undefined),
      Settled("setup", 0, Undefined, Undefined) }

\* ------------------------------------------------------------------ state

VARIABLES
    siteState,           \* { isSiteOnline, claimLimit, claimsToday [, totalAmountToday] }
    transactionHistory,  \* newest first
    now,                 \* what new Date() returns
    handlers             \* the asynchronous handlers: position and locals of each

vars == <<siteState, transactionHistory, now, handlers>>

\* res.status(status).json({ success, message })
Response(status, success, message) == [status |-> status, success |-> success, message |-> message]

\* Nothing has been written to res: the handler goes on to `await axios.post`.
NoRes == Response(0, FALSE, <<>>)

\* What running a handler to its end gives: the response it writes and the
\* site state and history it leaves.
Result(response, state, history) ==
    [res |-> response, siteState |-> state, transactionHistory |-> history]

\* { network: networkIds[network], mobile_number, amount: 100, airtime_type, Ported_number }
ApiPayload(network, mobile_number) ==
    [network |-> networkIds(network), mobile_number |-> mobile_number, amount |-> AMOUNT,
     airtime_type |-> "VTU", Ported_number |-> TRUE]

NoPayload ==
    [network |-> Absent, mobile_number |-> <<>>, amount |-> 0,
     airtime_type |-> "", Ported_number |-> FALSE]

Idle ==
    [pc |-> "idle", op |-> "none", network |-> "", mobile_number |-> <<>>,
     isAdminRequest |-> FALSE, apiPayload |-> NoPayload]

\* A handler suspended in `await axios.post(AIRTIME_API_URL, apiPayload, ...)`.
Awaiting(op, network, mobile_number, isAdminRequest) ==
    [pc |-> "awaiting", op |-> op, network |-> network, mobile_number |-> mobile_number,
     isAdminRequest |-> isAdminRequest, apiPayload |-> ApiPayload(network, mobile_number)]

\* A handler that has returned: its locals are gone.
Done ==
    [pc |-> "done", op |-> "none", network |-> "", mobile_number |-> <<>>,
     isAdminRequest |-> FALSE, apiPayload |-> NoPayload]

Init ==
    /\ siteState = [isSiteOnline |-> TRUE, claimLimit |-> 52, claimsToday |-> 0,
                    totalAmountToday |-> Absent]
    /\ transactionHistory = <<>>
    /\ now = 0
    /\ handlers = [r \in Reqs |-> Idle]

\* Arrives for a server that takes up a request only when every earlier one
\* has returned.
Arrives_OneAtATime(r) ==
    /\ handlers[r].pc = "idle"
    /\ \A q \in 1..(r - 1) : handlers[q].pc = "done"

\* Requests are numbered in the order they arrive: request r is the next one.
Arrives(r) ==
    /\ handlers[r].pc = "idle"
    /\ \A q \in 1..(r - 1) : handlers[q].pc # "idle"

\* ------------------------------------------------------------------ public claim

\* sendAirtimeChecks without the admin-phone exemption: isAdminRequest is
\* never set, so the admin phone is held to the switch and the quota.
sendAirtimeChecks_NoBypass(network, mobile_number) ==
    IF ~siteState.isSiteOnline
    THEN Response(503, FALSE, <<"Site is currently unavailable. Please try later.">>)
    ELSE IF siteState.claimsToday >= siteState.claimLimit
    THEN Response(429, FALSE, <<"The daily airtime claim limit has been reached. Please try again later.">>)
    ELSE IF network = "" \/ mobile_number = <<>>
    THEN Response(400, FALSE, <<"Missing required fields: network and mobile_number.">>)
    ELSE IF ~phoneRegex(mobile_number)
    THEN Response(400, FALSE, <<"Invalid phone number format. Please provide an 11-digit Nigerian number.">>)
    ELSE NoRes

\* sendAirtimeChecks with the two admission checks in the other order.
sendAirtimeChecks_QuotaFirst(network, mobile_number) ==
    LET isAdminRequest == mobile_number = ADMIN_PHONE
    IN  IF ~isAdminRequest /\ siteState.claimsToday >= siteState.claimLimit
        THEN Response(429, FALSE, <<"The daily airtime claim limit has been reached. Please try again later.">>)
        ELSE IF ~isAdminRequest /\ ~siteState.isSiteOnline
        THEN Response(503, FALSE, <<"Site is currently unavailable. Please try later.">>)
        ELSE IF network = "" \/ mobile_number = <<>>
        THEN Response(400, FALSE, <<"Missing required fields: network and mobile_number.">>)
        ELSE IF ~phoneRegex(mobile_number)
        THEN Response(400, FALSE, <<"Invalid phone number format. Please provide an 11-digit Nigerian number.">>)
        ELSE NoRes

\* The synchronous part of app.post('/send-airtime'): every early return in
\* the order of the code; NoRes when the handler goes on to call the provider.
sendAirtimeChecks(network, mobile_number) ==
    LET isAdminRequest == mobile_number = ADMIN_PHONE
    IN  IF ~isAdminRequest /\ ~siteState.isSiteOnline
        THEN Response(503, FALSE, <<"Site is currently unavailable. Please try later.">>)
        ELSE IF ~isAdminRequest /\ siteState.claimsToday >= siteState.claimLimit
        THEN Response(429, FALSE, <<"The daily airtime claim limit has been reached. Please try again later.">>)
        ELSE IF network = "" \/ mobile_number = <<>>
        THEN Response(400, FALSE, <<"Missing required fields: network and mobile_number.">>)
        ELSE IF ~phoneRegex(mobile_number)
        THEN Response(400, FALSE, <<"Invalid phone number format. Please provide an 11-digit Nigerian number.">>)
        ELSE IF API_KEY = ""
        THEN Response(500, FALSE, <<"Server configuration error. Unable to process request.">>)
        ELSE NoRes

\* The catch block of app.post('/send-airtime').
sendAirtimeCatch(error) ==
    IF error.kind = "response"
    THEN Response(error.status, FALSE,
                  <<OrElse(error.detail, OrElse(error.message, "An error occurred with the airtime provider."))>>)
    ELSE IF error.kind = "request"
    THEN Response(503, FALSE, <<"Airtime provider is unreachable. Please try again later.">>)
    ELSE Response(500, FALSE, <<"An internal server error occurred.">>)

\* unshift putting the record at the back of the array (push).
unshift_Push(history, tx) == Append(history, tx)

\* { date: new Date().toISOString(), network, mobile_number, amount: 100, status }
Transaction(network, mobile_number, status) ==
    [date |-> toISOString(now), network |-> network, mobile_number |-> mobile_number,
     amount |-> AMOUNT, status |-> status]

unshift(history, tx) == <<tx>> \o history

\* sendAirtimeSettled without the `if (!isAdminRequest)` around the increment.
sendAirtimeSettled_CountsAdmin(h, outcome) ==
    IF outcome.kind = "fulfilled"
    THEN Result(Response(200, TRUE, <<OrElse(outcome.message, "Airtime request processed successfully!")>>),
                [siteState EXCEPT !.claimsToday = @ + 1],
                unshift(transactionHistory, Transaction(h.network, h.mobile_number, "Success")))
    ELSE Result(sendAirtimeCatch(outcome), siteState, transactionHistory)

\* sendAirtimeSettled with the catch block logging the failed attempt.
sendAirtimeSettled_LogsFailed(h, outcome) ==
    IF outcome.kind = "fulfilled"
    THEN Result(Response(200, TRUE, <<OrElse(outcome.message, "Airtime request processed successfully!")>>),
                IF ~h.isAdminRequest
                THEN [siteState EXCEPT !.claimsToday = @ + 1]
                ELSE siteState,
                unshift(transactionHistory, Transaction(h.network, h.mobile_number, "Success")))
    ELSE Result(sendAirtimeCatch(outcome), siteState,
                unshift(transactionHistory, Transaction(h.network, h.mobile_number, "Failed")))

\* app.post('/send-airtime') from the await to its end, for the handler with
\* locals h whose provider call settled as outcome.
sendAirtimeSettled(h, outcome) ==
    IF outcome.kind = "fulfilled"
    THEN Result(Response(200, TRUE, <<OrElse(outcome.message, "Airtime request processed successfully!")>>),
                IF ~h.isAdminRequest
                THEN [siteState EXCEPT !.claimsToday = @ + 1]
                ELSE siteState,
                unshift(transactionHistory, Transaction(h.network, h.mobile_number, "Success")))
    ELSE Result(sendAirtimeCatch(outcome), siteState, transactionHistory)

\* SendAirtime with the `return` missing before the two denials: the handler
\* answers 503 or 429 and runs on to the provider call.
SendAirtime_DenialFallsThrough(r, network, mobile_number) ==
    /\ Arrives(r)
    /\ handlers' = [handlers EXCEPT ![r] =
           IF sendAirtimeChecks(network, mobile_number).status \in {400, 500}
           THEN Done
           ELSE Awaiting("claim", network, mobile_number, mobile_number = ADMIN_PHONE)]
    /\ UNCHANGED <<siteState, transactionHistory, now>>

\* POST /send-airtime arrives and runs up to the await (or to an early return).
SendAirtime(r, network, mobile_number) ==
    /\ Arrives(r)
    /\ handlers' = [handlers EXCEPT ![r] =
           IF sendAirtimeChecks(network, mobile_number) # NoRes
           THEN Done
           ELSE Awaiting("claim", network, mobile_number, mobile_number = ADMIN_PHONE)]
    /\ UNCHANGED <<siteState, transactionHistory, now>>

\* The provider call of handler r settles and the handler runs to its end.
SendAirtimeSettled(r, outcome) ==
    /\ handlers[r].pc = "awaiting"
    /\ handlers[r].op = "claim"
    /\ siteState' = sendAirtimeSettled(handlers[r], outcome).siteState
    /\ transactionHistory' = sendAirtimeSettled(handlers[r], outcome).transactionHistory
    /\ handlers' = [handlers EXCEPT ![r] = Done]
    /\ UNCHANGED now

\* ------------------------------------------------------------------ admin router

\* verifyAdminPin letting a request without a pin through.
verifyAdminPin_MissingPasses(pin) == pin = "" \/ pin = ADMIN_PIN

\* verifyAdminPin calls next() exactly when pin === ADMIN_PIN.
verifyAdminPin(pin) == pin = ADMIN_PIN

Forbidden == Response(403, FALSE, <<"Invalid admin PIN.">>)

\* POST /admin/login, mounted before verifyAdminPin.
login(pin) ==
    Result(IF pin = ADMIN_PIN
           THEN Response(200, TRUE, <<"Login successful.">>)
           ELSE Response(401, FALSE, <<"Invalid PIN.">>),
           siteState, transactionHistory)

RECURSIVE SumAmounts(_)
SumAmounts(txs) == IF txs = <<>> THEN 0 ELSE Head(txs).amount + SumAmounts(Tail(txs))

\* totalAmountToday without the date test of the filter: every successful
\* record counts, whatever its day.
totalAmountToday_AllDays(history, today) ==
    LET counted(tx) == tx.status = "Success" \/ tx.status = "Success (Admin)"
    IN  SumAmounts(SelectSeq(history, counted))

\* transactionHistory.filter(...).reduce((sum, tx) => sum + tx.amount, 0)
totalAmountToday(history, today) ==
    LET counted(tx) == startsWith(tx.date, today)
                       /\ (tx.status = "Success" \/ tx.status = "Success (Admin)")
    IN  SumAmounts(SelectSeq(history, counted))

\* POST /admin/state
state(pin) ==
    IF ~verifyAdminPin(pin)
    THEN Result(Forbidden, siteState, transactionHistory)
    ELSE Result(Response(200, TRUE, <<>>),
                [siteState EXCEPT
                    !.totalAmountToday = totalAmountToday(transactionHistory, toISOString(now).day)],
                transactionHistory)

\* POST /admin/history
history(pin) ==
    IF ~verifyAdminPin(pin)
    THEN Result(Forbidden, siteState, transactionHistory)
    ELSE Result(Response(200, TRUE, <<>>), siteState, transactionHistory)

\* toggleSite that also starts the day's count afresh.
toggleSite_ResetsCount(pin) ==
    IF ~verifyAdminPin(pin)
    THEN Result(Forbidden, siteState, transactionHistory)
    ELSE Result(Response(200, TRUE,
                         <<"Site is now ", IF ~siteState.isSiteOnline THEN "ON" ELSE "OFF", ".">>),
                [siteState EXCEPT !.isSiteOnline = ~@, !.claimsToday = 0],
                transactionHistory)

\* POST /admin/toggle-site
toggleSite(pin) ==
    IF ~verifyAdminPin(pin)
    THEN Result(Forbidden, siteState, transactionHistory)
    ELSE Result(Response(200, TRUE,
                         <<"Site is now ", IF ~siteState.isSiteOnline THEN "ON" ELSE "OFF", ".">>),
                [siteState EXCEPT !.isSiteOnline = ~@],
                transactionHistory)

\* setLimit without the `newLimit < 0` test: only NaN is refused.
setLimit_AcceptsNegative(pin, limit) ==
    LET newLimit == parseInt(limit)
    IN  IF ~verifyAdminPin(pin)
        THEN Result(Forbidden, siteState, transactionHistory)
        ELSE IF isNaN(newLimit)
        THEN Result(Response(400, FALSE, <<"Invalid limit provided. Must be a non-negative number.">>),
                    siteState, transactionHistory)
        ELSE Result(Response(200, TRUE, <<"Claim limit updated to ", DigitChar(newLimit), ".">>),
                    [siteState EXCEPT !.claimLimit = newLimit],
                    transactionHistory)

\* POST /admin/set-limit
setLimit(pin, limit) ==
    LET newLimit == parseInt(limit)
    IN  IF ~verifyAdminPin(pin)
        THEN Result(Forbidden, siteState, transactionHistory)
        ELSE IF isNaN(newLimit) \/ newLimit < 0
        THEN Result(Response(400, FALSE, <<"Invalid limit provided. Must be a non-negative number.">>),
                    siteState, transactionHistory)
        ELSE Result(Response(200, TRUE, <<"Claim limit updated to ", DigitChar(newLimit), ".">>),
                    [siteState EXCEPT !.claimLimit = newLimit],
                    transactionHistory)

\* POST /admin/reset-count
resetCount(pin) ==
    IF ~verifyAdminPin(pin)
    THEN Result(Forbidden, siteState, transactionHistory)
    ELSE Result(Response(200, TRUE, <<"Claim count has been reset.">>),
                [siteState EXCEPT !.claimsToday = 0],
                transactionHistory)

\* Each synchronous admin handler runs to its end in one step.
Login(pin) ==
    /\ siteState' = login(pin).siteState
    /\ transactionHistory' = login(pin).transactionHistory
    /\ UNCHANGED <<now, handlers>>

State(pin) ==
    /\ siteState' = state(pin).siteState
    /\ transactionHistory' = state(pin).transactionHistory
    /\ UNCHANGED <<now, handlers>>

History(pin) ==
    /\ siteState' = history(pin).siteState
    /\ transactionHistory' = history(pin).transactionHistory
    /\ UNCHANGED <<now, handlers>>

ToggleSite(pin) ==
    /\ siteState' = toggleSite(pin).siteState
    /\ transactionHistory' = toggleSite(pin).transactionHistory
    /\ UNCHANGED <<now, handlers>>

SetLimit(pin, limit) ==
    /\ siteState' = setLimit(pin, limit).siteState
    /\ transactionHistory' = setLimit(pin, limit).transactionHistory
    /\ UNCHANGED <<now, handlers>>

ResetCount(pin) ==
    /\ siteState' = resetCount(pin).siteState
    /\ transactionHistory' = resetCount(pin).transactionHistory
    /\ UNCHANGED <<now, handlers>>

\* The synchronous part of adminRouter.post('/send-airtime'), verifyAdminPin
\* included; NoRes when the handler goes on to call the provider.
adminSendChecks(pin, network, mobile_number) ==
    IF ~verifyAdminPin(pin)
    THEN Forbidden
    ELSE IF network = "" \/ mobile_number = <<>>
    THEN Response(400, FALSE, <<"Missing required fields: network and mobile_number.">>)
    ELSE NoRes

\* The catch block of adminRouter.post('/send-airtime').
adminSendCatch(error) ==
    Response(IF error.kind = "response" THEN error.status ELSE 500, FALSE,
             <<IF error.kind = "response"
               THEN OrElse(error.detail, error.message)
               ELSE "An internal error occurred.">>)

\* adminSendSettled with the public handler's increment copied in.
adminSendSettled_Counts(h, outcome) ==
    IF outcome.kind = "fulfilled"
    THEN Result(Response(200, TRUE,
                         <<"Admin send successful: ", OrElse(outcome.message, "Airtime request processed.")>>),
                [siteState EXCEPT !.claimsToday = @ + 1],
                unshift(transactionHistory, Transaction(h.network, h.mobile_number, "Success (Admin)")))
    ELSE Result(adminSendCatch(outcome), siteState, transactionHistory)

\* adminRouter.post('/send-airtime') from the await to its end.
adminSendSettled(h, outcome) ==
    IF outcome.kind = "fulfilled"
    THEN Result(Response(200, TRUE,
                         <<"Admin send successful: ", OrElse(outcome.message, "Airtime request processed.")>>),
                siteState,
                unshift(transactionHistory, Transaction(h.network, h.mobile_number, "Success (Admin)")))
    ELSE Result(adminSendCatch(outcome), siteState, transactionHistory)

\* POST /admin/send-airtime arrives and runs up to the await (or to an early return).
AdminSendAirtime(r, pin, network, mobile_number) ==
    /\ Arrives(r)
    /\ handlers' = [handlers EXCEPT ![r] =
           IF adminSendChecks(pin, network, mobile_number) # NoRes
           THEN Done
           ELSE Awaiting("admin-send", network, mobile_number, FALSE)]
    /\ UNCHANGED <<siteState, transactionHistory, now>>

\* The provider call of admin handler r settles and the handler runs to its end.
AdminSendAirtimeSettled(r, outcome) ==
    /\ handlers[r].pc = "awaiting"
    /\ handlers[r].op = "admin-send"
    /\ siteState' = adminSendSettled(handlers[r], outcome).siteState
    /\ transactionHistory' = adminSendSettled(handlers[r], outcome).transactionHistory
    /\ handlers' = [handlers EXCEPT ![r] = Done]
    /\ UNCHANGED now

\* ------------------------------------------------------------------ clock

\* Time passes between two handler steps.
Tick ==
    /\ now < MaxNow
    /\ now' = now + 1
    /\ UNCHANGED <<siteState, transactionHistory, handlers>>

\* ------------------------------------------------------------------ specification

Next ==
    \/ \E r \in Reqs, network \in Networks, mobile_number \in Phones :
           SendAirtime(r, network, mobile_number)
    \/ \E r \in Reqs, outcome \in ProviderOutcomes : SendAirtimeSettled(r, outcome)
    \/ \E r \in Reqs, pin \in Pins, network \in Networks, mobile_number \in Phones :
           AdminSendAirtime(r, pin, network, mobile_number)
    \/ \E r \in Reqs, outcome \in ProviderOutcomes : AdminSendAirtimeSettled(r, outcome)
    \/ \E pin \in Pins : Login(pin)
    \/ \E pin \in Pins : State(pin)
    \/ \E pin \in Pins : History(pin)
    \/ \E pin \in Pins : ToggleSite(pin)
    \/ \E pin \in Pins, limit \in Limits : SetLimit(pin, limit)
    \/ \E pin \in Pins : ResetCount(pin)

\* The requests, handled within one instant of the clock.  No handler reads
\* the clock but to stamp a record and to pick the records of today.
Spec == Init /\ [][Next]_vars

\* The requests, handled while the clock runs.
NextClock == Next \/ Tick

SpecClock == Init /\ [][NextClock]_vars

\* A burst of public claims: the ledger is online with claimsToday = 0 and a
\* limit L below the number of requests, every request is a well-formed claim
\* from a phone that is not the admin's, every provider call succeeds, and no
\* admin operation runs in between.
BurstNetworks == {"MTN", "Glo", "9mobile", "Airtel"}

OtherPhone == <<"0", "7", "0", "8", "7", "6", "5", "4", "3", "2", "1">>

BurstPhones == {UserPhone, OtherPhone}

InitBurst ==
    /\ \E L \in 0..(NumReqs - 1) :
           siteState = [isSiteOnline |-> TRUE, claimLimit |-> L, claimsToday |-> 0,
                        totalAmountToday |-> Absent]
    /\ transactionHistory = <<>>
    /\ now = 0
    /\ handlers = [r \in Reqs |-> Idle]

NextBurst ==
    \/ \E r \in Reqs, network \in BurstNetworks, mobile_number \in BurstPhones :
           SendAirtime(r, network, mobile_number)
    \/ \E r \in Reqs, outcome \in {o \in ProviderOutcomes : o.kind = "fulfilled"} :
           SendAirtimeSettled(r, outcome)

SpecBurst == InitBurst /\ [][NextBurst]_vars

\* ------------------------------------------------------------------ properties

Online == siteState.isSiteOnline

Exhausted == siteState.claimsToday >= siteState.claimLimit

SiteOffline(response) ==
    response = Response(503, FALSE, <<"Site is currently unavailable. Please try later.">>)

QuotaExceeded(response) ==
    response = Response(429, FALSE, <<"The daily airtime claim limit has been reached. Please try again later.">>)

Denied(response) == SiteOffline(response) \/ QuotaExceeded(response)

\* C1: a burst of N admissible claims against claimLimit = L < N ends with
\* exactly L claims admitted and counted (claimsToday = L, L records logged)
\* and the other N - L denied, whatever the interleaving.
C1_BurstAdmitsExactlyLimit ==
    (\A r \in Reqs : handlers[r].pc = "done") =>
        /\ siteState.claimsToday = siteState.claimLimit
        /\ Len(transactionHistory) = siteState.claimLimit

\* C2: whenever a claim increments claimsToday, the site is online and
\* claimsToday is below claimLimit just before the increment.
C2_IncrementUnderAdmission ==
    [][siteState'.claimsToday = siteState.claimsToday + 1 =>
           Online /\ siteState.claimsToday < siteState.claimLimit]_vars

NotAdminPhone(h) == h.mobile_number # ADMIN_PHONE

\* Handler r takes a step: it arrives, or its provider call settles.
Runs(r) == handlers'[r] # handlers[r]

\* C3: claimsToday changes only by +1, when the provider call of a public
\* claim from a phone other than the admin's is fulfilled (and every such
\* completion answers 200 and adds exactly 1), or to 0 by a valid-PIN
\* reset-count.
C3_ClaimsTodayChangesOnlyBy ==
    [][/\ siteState'.claimsToday # siteState.claimsToday =>
              \/ /\ siteState'.claimsToday = siteState.claimsToday + 1
                 /\ \E r \in Reqs, outcome \in ProviderOutcomes :
                        /\ SendAirtimeSettled(r, outcome)
                        /\ outcome.kind = "fulfilled"
                        /\ NotAdminPhone(handlers[r])
              \/ /\ siteState'.claimsToday = 0
                 /\ ResetCount(ADMIN_PIN)
       /\ \A r \in Reqs, outcome \in ProviderOutcomes :
              (Runs(r) /\ outcome.kind = "fulfilled" /\ NotAdminPhone(handlers[r])
                   /\ SendAirtimeSettled(r, outcome)) =>
                  /\ siteState'.claimsToday = siteState.claimsToday + 1
                  /\ sendAirtimeSettled(handlers[r], outcome).res.status = 200
      ]_vars

\* A counted claim of a user's phone is in the log and the count was reset after it.
C3_Witness ==
    /\ siteState.claimsToday = 0
    /\ \E i \in DOMAIN transactionHistory :
           /\ transactionHistory[i].mobile_number = UserPhone
           /\ transactionHistory[i].status = "Success"
    /\ \E r \in Reqs : handlers[r].pc = "awaiting" /\ handlers[r].op = "claim"

\* C4: a public claim from the admin phone is never answered site-offline or
\* quota-exceeded: with a network given it goes on to the provider whatever
\* isSiteOnline and the quota are; and when its provider call is fulfilled
\* claimsToday stays as it is.
C4_AdminPhoneBypass ==
    /\ [](\A network \in Networks :
              /\ ~Denied(sendAirtimeChecks(network, ADMIN_PHONE))
              /\ network # "" => sendAirtimeChecks(network, ADMIN_PHONE) = NoRes)
    /\ [][\A r \in Reqs : Runs(r) =>
              /\ \A network \in Networks \ {""} :
                     SendAirtime(r, network, ADMIN_PHONE) => handlers'[r].pc = "awaiting"
              /\ \A outcome \in ProviderOutcomes :
                     (handlers[r].mobile_number = ADMIN_PHONE /\ SendAirtimeSettled(r, outcome)) =>
                         siteState'.claimsToday = siteState.claimsToday
         ]_vars

\* The admin phone's claim was logged while the site is offline with the quota
\* used up and nothing counted.
C4_Witness ==
    /\ ~Online
    /\ Exhausted
    /\ siteState.claimsToday = 0
    /\ transactionHistory # <<>>
    /\ \A i \in DOMAIN transactionHistory :
           /\ transactionHistory[i].mobile_number = ADMIN_PHONE
           /\ transactionHistory[i].status = "Success"

\* C5: adminSend with the valid PIN and both fields given goes on to the
\* provider whatever isSiteOnline and the quota are; it never changes
\* claimsToday; a fulfilled provider call puts exactly one record, of status
\* 'Success (Admin)', at the front of the log; a record the public endpoint
\* adds has status 'Success'.
C5_AdminSend ==
    [][\A r \in Reqs : Runs(r) =>
           /\ \A network \in Networks \ {""}, mobile_number \in Phones \ {<<>>} :
                  AdminSendAirtime(r, ADMIN_PIN, network, mobile_number) =>
                      /\ handlers'[r].pc = "awaiting"
                      /\ handlers'[r].apiPayload.mobile_number = mobile_number
           /\ \A outcome \in ProviderOutcomes :
                  /\ AdminSendAirtimeSettled(r, outcome) =>
                         /\ siteState'.claimsToday = siteState.claimsToday
                         /\ outcome.kind = "fulfilled" =>
                                /\ Len(transactionHistory') = Len(transactionHistory) + 1
                                /\ Tail(transactionHistory') = transactionHistory
                                /\ Head(transactionHistory').status = "Success (Admin)"
                  /\ (SendAirtimeSettled(r, outcome) /\ transactionHistory' # transactionHistory) =>
                         Head(transactionHistory').status = "Success"
      ]_vars

\* An admin send was logged although the site is offline and the quota used up.
C5_Witness ==
    /\ ~Online
    /\ Exhausted
    /\ \E i \in DOMAIN transactionHistory : transactionHistory[i].status = "Success (Admin)"
    /\ \E i \in DOMAIN transactionHistory : transactionHistory[i].status = "Success"

WrongPins == Pins \ {ADMIN_PIN}

\* What a handler leaves of the ledger is what it found.
LeavesLedger(result) ==
    /\ result.siteState = siteState
    /\ result.transactionHistory = transactionHistory

\* C6: every admin operation other than login, called with a PIN that is not
\* the shared secret, answers 403, calls no provider and leaves siteState and
\* the log as they are, in every reachable state (so also after a successful
\* login or any earlier valid-PIN call).
C6_WrongPinForbidden ==
    /\ [](\A pin \in WrongPins :
              /\ \A result \in {state(pin), history(pin), toggleSite(pin), resetCount(pin)}
                               \cup {setLimit(pin, limit) : limit \in Limits} :
                     result.res = Forbidden /\ LeavesLedger(result)
              /\ \A network \in Networks, mobile_number \in Phones :
                     adminSendChecks(pin, network, mobile_number) = Forbidden)
    /\ [][\A r \in Reqs : Runs(r) =>
              \A pin \in WrongPins, network \in Networks, mobile_number \in Phones :
                  AdminSendAirtime(r, pin, network, mobile_number) =>
                      /\ handlers'[r].pc = "done"
                      /\ UNCHANGED <<siteState, transactionHistory>>
         ]_vars

\* Valid-PIN calls of toggle-site, set-limit and state have gone through, and
\* an admin send was logged.
C6_Witness ==
    /\ ~Online
    /\ siteState.claimLimit = 1
    /\ siteState.totalAmountToday = AMOUNT
    /\ \E r \in Reqs : handlers[r].pc = "idle"

\* C7: a public claim with a missing network or phone number, or a phone
\* number that fails the format check, is answered 400 whatever the ledger
\* state is.
C7_ValidationBeforeLedger ==
    \A network \in Networks, mobile_number \in Phones :
        (network = "" \/ mobile_number = <<>> \/ ~phoneRegex(mobile_number)) =>
            sendAirtimeChecks(network, mobile_number).status = 400

\* C8: the admission decision of a public claim: from the admin phone it is
\* never a denial; from another phone it is site-offline (503) when the site
\* is offline, also with the quota used up; else quota-exceeded (429) when
\* claimsToday >= claimLimit, claimLimit = 0 included; else it is admitted.
C8_AdmissionOrder ==
    \A network \in Networks, mobile_number \in Phones :
        LET response == sendAirtimeChecks(network, mobile_number)
        IN  IF mobile_number = ADMIN_PHONE THEN ~Denied(response)
            ELSE IF ~Online THEN SiteOffline(response)
            ELSE IF Exhausted THEN QuotaExceeded(response)
            ELSE ~Denied(response)

\* The site is offline and the quota is used up at once, with a limit of 0.
C8_Witness ==
    /\ ~Online
    /\ Exhausted
    /\ siteState.claimLimit = 0
    /\ \A r \in Reqs : handlers[r].pc # "idle"

\* C9: a public claim that is denied (site offline or quota exceeded) returns
\* at once: it calls no provider and leaves siteState and the log as they
\* are; and while the site is offline no claim from a phone other than the
\* admin's that arrives goes on to the provider.
C9_DeniedNeverReachesProvider ==
    [][\A r \in Reqs, network \in Networks, mobile_number \in Phones :
           (Runs(r) /\ SendAirtime(r, network, mobile_number)) =>
               /\ Denied(sendAirtimeChecks(network, mobile_number)) =>
                      /\ handlers'[r].pc = "done"
                      /\ UNCHANGED <<siteState, transactionHistory>>
               /\ (~Online /\ mobile_number # ADMIN_PHONE) => handlers'[r].pc = "done"
               /\ (Online /\ Exhausted /\ mobile_number # ADMIN_PHONE) => handlers'[r].pc = "done"
      ]_vars

\* Every request has returned with the site offline, nothing logged or counted.
C9_Witness ==
    /\ ~Online
    /\ \A r \in Reqs : handlers[r].pc = "done"
    /\ transactionHistory = <<>>
    /\ siteState.claimsToday = 0

\* C10: a public claim or admin send whose provider call is not fulfilled
\* answers success: false and leaves siteState and the log as they are.
C10_FailureLeavesLedger ==
    /\ [](\A r \in Reqs, outcome \in ProviderOutcomes :
              (handlers[r].pc = "awaiting" /\ outcome.kind # "fulfilled") =>
                  LET result == IF handlers[r].op = "claim"
                                THEN sendAirtimeSettled(handlers[r], outcome)
                                ELSE adminSendSettled(handlers[r], outcome)
                  IN  LeavesLedger(result) /\ ~result.res.success)
    /\ [][\A r \in Reqs, outcome \in ProviderOutcomes :
              (Runs(r) /\ outcome.kind # "fulfilled"
                   /\ (SendAirtimeSettled(r, outcome) \/ AdminSendAirtimeSettled(r, outcome))) =>
                  UNCHANGED <<siteState, transactionHistory>>
         ]_vars

\* A provider call has settled and nothing was logged or counted, while
\* another call is still outstanding.
C10_Witness ==
    /\ \E r \in Reqs : handlers[r].pc = "done"
    /\ \E r \in Reqs : handlers[r].pc = "awaiting"
    /\ transactionHistory = <<>>
    /\ siteState.claimsToday = 0
    /\ Online

\* The response handler h writes when its provider call settles as outcome.
SettledResponse(h, outcome) ==
    IF h.op = "claim"
    THEN sendAirtimeSettled(h, outcome).res
    ELSE adminSendSettled(h, outcome).res

\* C11: on the public claim and on adminSend alike, a fulfilled provider call
\* answers 200, a provider rejection answers the upstream status with the
\* upstream detail (else message), a request that got no response answers 503
\* and a request that could not be set up answers 500; the last two never
\* share a status code.
C11_OutcomesDistinguishable ==
    \A r \in Reqs : handlers[r].pc = "awaiting" =>
        /\ \A outcome \in ProviderOutcomes :
               LET response == SettledResponse(handlers[r], outcome)
               IN  /\ outcome.kind = "fulfilled" => response.status = 200
                   /\ outcome.kind = "response" =>
                          /\ response.status = outcome.status
                          /\ Truthy(outcome.detail) => response.message = <<outcome.detail>>
                          /\ (~Truthy(outcome.detail) /\ Truthy(outcome.message)) =>
                                 response.message = <<outcome.message>>
                   /\ outcome.kind = "request" => response.status = 503
                   /\ outcome.kind = "setup" => response.status = 500
        /\ \A unreachable, setupFailed \in ProviderOutcomes :
               (unreachable.kind = "request" /\ setupFailed.kind = "setup") =>
                   SettledResponse(handlers[r], unreachable).status
                       # SettledResponse(handlers[r], setupFailed).status

\* Requests that name a network the provider does not know, or a phone number
\* that is not an 11-digit number, sent to both endpoints that call the
\* provider; the ledger stays online with its initial limit.
ValidationNetworks == {"MTN", "Safaricom"}

ValidationPhones == {UserPhone, ShortPhone}

NextValidation ==
    \/ \E r \in Reqs, network \in ValidationNetworks, mobile_number \in ValidationPhones :
           SendAirtime(r, network, mobile_number)
    \/ \E r \in Reqs, outcome \in ProviderOutcomes : SendAirtimeSettled(r, outcome)
    \/ \E r \in Reqs, pin \in Pins, network \in ValidationNetworks,
          mobile_number \in ValidationPhones :
           AdminSendAirtime(r, pin, network, mobile_number)
    \/ \E r \in Reqs, outcome \in ProviderOutcomes : AdminSendAirtimeSettled(r, outcome)

SpecValidation == Init /\ [][NextValidation]_vars

RecognizedNetworks == {"MTN", "Glo", "9mobile", "Airtel"}

Validated(network, mobile_number) ==
    network \in RecognizedNetworks /\ phoneRegex(mobile_number)

\* C12: on the public claim and on adminSend, a request whose network is not
\* one of MTN, Glo, 9mobile, Airtel, or whose phone number fails the 11-digit
\* format, never reaches the provider nor the log: no handler awaits the
\* provider with such a request, the payload of every outstanding call names
\* one of the provider's network codes 1..4, and no such request is in the log.
C12_OnlyValidatedReachProvider ==
    /\ \A r \in Reqs : handlers[r].pc = "awaiting" =>
           /\ Validated(handlers[r].network, handlers[r].mobile_number)
           /\ handlers[r].apiPayload.network \in 1..4
    /\ \A i \in DOMAIN transactionHistory :
           Validated(transactionHistory[i].network, transactionHistory[i].mobile_number)

\* The requests that write or read the log, handled while the clock runs: one
\* request body for each path through a handler (a claim of the admin phone,
\* of a user's phone, of a malformed number; an admin send with the PIN and
\* without it), every way the provider call settles, and every admin
\* operation with the PIN and with a wrong one.
LedgerPhones == {ADMIN_PHONE, UserPhone, ShortPhone}

LedgerPins == {ADMIN_PIN, "000000"}

NextLedger ==
    \/ \E r \in Reqs, mobile_number \in LedgerPhones : SendAirtime(r, "MTN", mobile_number)
    \/ \E r \in Reqs, outcome \in ProviderOutcomes : SendAirtimeSettled(r, outcome)
    \/ \E r \in Reqs, pin \in LedgerPins : AdminSendAirtime(r, pin, "MTN", UserPhone)
    \/ \E r \in Reqs, outcome \in ProviderOutcomes : AdminSendAirtimeSettled(r, outcome)
    \/ \E pin \in LedgerPins : Login(pin)
    \/ \E pin \in LedgerPins : State(pin)
    \/ \E pin \in LedgerPins : History(pin)
    \/ \E pin \in LedgerPins : ToggleSite(pin)
    \/ \E limit \in Limits : SetLimit(ADMIN_PIN, limit)
    \/ \E pin \in LedgerPins : ResetCount(pin)
    \/ Tick

SpecLedger == Init /\ [][NextLedger]_vars

\* The records of the log that are of the current calendar day and successful.
CountedToday ==
    {i \in DOMAIN transactionHistory :
        /\ transactionHistory[i].date.day = now \div TicksPerDay
        /\ transactionHistory[i].status \in {"Success", "Success (Admin)"}}

\* C13: in every reachable state getState with the valid PIN answers 200 with
\* totalAmountToday = 100 times the number of log records that are of the
\* current calendar day and of status Success or Success (Admin), computed
\* from the log as it is now (whatever value an earlier call left in
\* siteState); it changes nothing else of the ledger.
C13_TotalAmountToday ==
    LET result == state(ADMIN_PIN)
    IN  /\ result.res.status = 200
        /\ result.siteState.totalAmountToday = AMOUNT * Cardinality(CountedToday)
        /\ result.siteState = [siteState EXCEPT !.totalAmountToday = AMOUNT * Cardinality(CountedToday)]
        /\ result.transactionHistory = transactionHistory

\* Yesterday's claim of the admin phone and today's admin send are in the
\* log, and getState has answered 100 today.
C13_Witness ==
    /\ now = 1
    /\ Len(transactionHistory) = 2
    /\ transactionHistory[2].date.day = 0
    /\ transactionHistory[2].mobile_number = ADMIN_PHONE
    /\ transactionHistory[2].status = "Success"
    /\ transactionHistory[1].date.day = 1
    /\ transactionHistory[1].status = "Success (Admin)"
    /\ siteState.totalAmountToday = AMOUNT

\* The instant a record's date stands for.
Stamp(date) == date.day * TicksPerDay + date.time

\* C14: every step leaves the log as it is or puts exactly one record in
\* front of it (so earlier records are never changed, removed or reordered,
\* and reset-count does not clear the log); a step of a synchronous admin
\* operation leaves the log as it is; every fulfilled provider call, of a
\* public claim or of an admin send, adds exactly one record; and the dates
\* of the records do not increase from the front of the log to its back.
C14_LogPrependOnly ==
    /\ [](\A i \in 1..(Len(transactionHistory) - 1) :
              Stamp(transactionHistory[i].date) >= Stamp(transactionHistory[i + 1].date))
    /\ [][/\ \/ transactionHistory' = transactionHistory
              \/ /\ Len(transactionHistory') = Len(transactionHistory) + 1
                 /\ Tail(transactionHistory') = transactionHistory
                 /\ Head(transactionHistory').date = toISOString(now)
           /\ handlers' = handlers => transactionHistory' = transactionHistory
           /\ \A r \in Reqs : Runs(r) =>
                  \A outcome \in ProviderOutcomes :
                      (outcome.kind = "fulfilled"
                           /\ (SendAirtimeSettled(r, outcome) \/ AdminSendAirtimeSettled(r, outcome))) =>
                          Len(transactionHistory') = Len(transactionHistory) + 1
         ]_vars

\* Yesterday's counted claim is behind today's record, and the count was
\* reset after it.
C14_Witness ==
    /\ Len(transactionHistory) = 2
    /\ transactionHistory[2].date.day = 0
    /\ transactionHistory[2].mobile_number = UserPhone
    /\ transactionHistory[2].status = "Success"
    /\ transactionHistory[1].date.day = 1
    /\ siteState.claimsToday = 0

\* Some provider call is outstanding.
Outstanding == \E r \in Reqs : handlers[r].pc = "awaiting"

\* Request r has not arrived yet and is the next to arrive.
NextToArrive(r) ==
    /\ handlers[r].pc = "idle"
    /\ \A q \in 1..(r - 1) : handlers[q].pc \in {"awaiting", "done"}

\* C15: while provider calls are outstanding (nothing makes them return), the
\* next public claim and the next admin send can still run their synchronous
\* part, whatever their body, and getState, getHistory, toggleSite, setLimit
\* and resetCount with the valid PIN still run to their end and answer 200
\* (setLimit with a limit it accepts).
C15_AwaitHoldsNothing ==
    Outstanding =>
        /\ \A r \in Reqs : NextToArrive(r) =>
               /\ \A network \in Networks, mobile_number \in Phones :
                      ENABLED SendAirtime(r, network, mobile_number)
               /\ \A pin \in Pins, network \in Networks, mobile_number \in Phones :
                      ENABLED AdminSendAirtime(r, pin, network, mobile_number)
        /\ \A pin \in Pins :
               /\ ENABLED State(pin)
               /\ ENABLED History(pin)
               /\ ENABLED ToggleSite(pin)
               /\ ENABLED ResetCount(pin)
               /\ \A limit \in Limits : ENABLED SetLimit(pin, limit)
        /\ \A result \in {state(ADMIN_PIN), history(ADMIN_PIN), toggleSite(ADMIN_PIN),
                            resetCount(ADMIN_PIN), setLimit(ADMIN_PIN, <<"0">>)} :
               result.res.status = 200

\* A user's claim is still awaiting the provider; since it was admitted the
\* site was turned off and the limit set to 0, and a later request has
\* arrived and returned.
C15_Witness ==
    /\ handlers[1].pc = "awaiting"
    /\ handlers[1].op = "claim"
    /\ handlers[1].mobile_number = UserPhone
    /\ ~Online
    /\ siteState.claimLimit = 0
    /\ handlers[2].pc = "done"

\* Every provider call settles: the promise of axios.post is fulfilled or
\* rejected in the end, and the handler then runs on.
SpecFair ==
    /\ Spec
    /\ \A r \in Reqs :
           /\ WF_vars(\E outcome \in ProviderOutcomes : SendAirtimeSettled(r, outcome))
           /\ WF_vars(\E outcome \in ProviderOutcomes : AdminSendAirtimeSettled(r, outcome))

\* The message of a response is there: it is not left out of the JSON body.
Defined(message) == message # <<>> /\ \A i \in DOMAIN message : message[i] # Undefined

\* A response that reports a failure carries success: false and a message.
FailureWithMessage(response) ==
    response.status # 200 => (~response.success /\ Defined(response.message))

\* C16: every branch on which a public claim or an admin operation ends sends
\* one response; a response that reports a failure is {success: false,
\* message} with a defined message; and, the provider call settling in the
\* end, every claim and admin send that awaits the provider responds.
C16_OneDefinedResponse ==
    /\ [](/\ \A network \in Networks, mobile_number \in Phones :
                 LET response == sendAirtimeChecks(network, mobile_number)
                 IN  response # NoRes => FailureWithMessage(response)
          /\ \A pin \in Pins :
                 /\ \A result \in {login(pin), state(pin), history(pin), toggleSite(pin),
                                     resetCount(pin)}
                                    \cup {setLimit(pin, limit) : limit \in Limits} :
                        result.res.status # 0 /\ FailureWithMessage(result.res)
                 /\ \A network \in Networks, mobile_number \in Phones :
                        LET response == adminSendChecks(pin, network, mobile_number)
                        IN  response # NoRes => FailureWithMessage(response)
          /\ \A r \in Reqs : handlers[r].pc = "awaiting" =>
                 \A outcome \in ProviderOutcomes :
                     LET response == SettledResponse(handlers[r], outcome)
                     IN  response.status # 0 /\ FailureWithMessage(response))
    /\ \A r \in Reqs : (handlers[r].pc = "awaiting") ~> (handlers[r].pc = "done")

\* What a public claim answers when the provider is classified unreachable.
Unreachable ==
    Response(503, FALSE, <<"Airtime provider is unreachable. Please try again later.">>)

\* The provider's response has no body: neither detail nor message.
NoBody(outcome) == ~Truthy(outcome.detail) /\ ~Truthy(outcome.message)

\* C17: a public claim whose provider call ends with a response of status 503
\* and no body is answered as an unreachable provider; one whose provider
\* call ends with another non-2xx response is answered with the upstream
\* status and the body's detail, else its message (a response of status 422
\* with detail d gives 422 and d).
C17_ProviderResponseClassified ==
    \A r \in Reqs : (handlers[r].pc = "awaiting" /\ handlers[r].op = "claim") =>
        \A outcome \in ProviderOutcomes : outcome.kind = "response" =>
            LET response == sendAirtimeSettled(handlers[r], outcome).res
            IN  IF outcome.status = 503 /\ NoBody(outcome)
                THEN response = Unreachable
                ELSE /\ response.status = outcome.status
                     /\ ~response.success
                     /\ response.message =
                            <<IF Truthy(outcome.detail) THEN outcome.detail ELSE outcome.message>>

\* C18: in every reachable state claimLimit and claimsToday are non-negative
\* integers; setLimit with the valid PIN and the limit "n" answers 200 and
\* sets claimLimit to n, changing nothing else; with a negative limit or one
\* that is not a number it answers 400 and leaves the whole ledger as it is;
\* whatever the limit, it answers 200 or 400 and leaves claimLimit
\* non-negative.
C18_NonNegativeCounters ==
    /\ siteState.claimLimit \in Nat
    /\ siteState.claimsToday \in Nat
    /\ \A n \in 0..MaxLimit :
           LET result == setLimit(ADMIN_PIN, <<DigitChar(n)>>)
           IN  /\ result.res.status = 200
               /\ result.siteState = [siteState EXCEPT !.claimLimit = n]
               /\ result.transactionHistory = transactionHistory
    /\ \A limit \in {<<"-", "1">>, <<"a", "b">>} :
           LET result == setLimit(ADMIN_PIN, limit)
           IN  result.res.status = 400 /\ ~result.res.success /\ LeavesLedger(result)
    /\ \A limit \in Limits :
           LET result == setLimit(ADMIN_PIN, limit)
           IN  /\ result.res.status \in {200, 400}
               /\ result.res.status = 400 => LeavesLedger(result)
               /\ result.siteState.claimLimit \in Nat
               /\ result.siteState.claimsToday = siteState.claimsToday

\* The limit was set below the number of claims already counted.
C18_Witness ==
    /\ siteState.claimLimit = 1
    /\ siteState.claimsToday = 2

\* A step of one of the admin operations that run to their end at once,
\* called with the valid PIN (login with any PIN).
AdminStep ==
    \/ ToggleSite(ADMIN_PIN)
    \/ ResetCount(ADMIN_PIN)
    \/ State(ADMIN_PIN)
    \/ History(ADMIN_PIN)
    \/ \E limit \in Limits : SetLimit(ADMIN_PIN, limit)
    \/ \E pin \in Pins : Login(pin)

\* C19: with the valid PIN, toggleSite negates isSiteOnline and changes
\* nothing else, and a second toggle gives back the state before the first;
\* setLimit changes at most claimLimit; resetCount sets claimsToday to 0 and
\* changes nothing else; login and getHistory change nothing; getState
\* changes nothing but the totalAmountToday it reports; and a step of any of
\* them leaves the log and every asynchronous handler, outstanding or
\* returned, as they are.
C19_AdminFrame ==
    /\ [](/\ toggleSite(ADMIN_PIN).siteState
                 = [siteState EXCEPT !.isSiteOnline = ~siteState.isSiteOnline]
          /\ [toggleSite(ADMIN_PIN).siteState EXCEPT !.isSiteOnline = ~@] = siteState
          /\ toggleSite(ADMIN_PIN).transactionHistory = transactionHistory
          /\ \A limit \in Limits :
                 LET result == setLimit(ADMIN_PIN, limit)
                 IN  /\ result.siteState
                           = [siteState EXCEPT !.claimLimit = result.siteState.claimLimit]
                     /\ result.transactionHistory = transactionHistory
          /\ resetCount(ADMIN_PIN).siteState = [siteState EXCEPT !.claimsToday = 0]
          /\ resetCount(ADMIN_PIN).transactionHistory = transactionHistory
          /\ \A pin \in Pins : LeavesLedger(login(pin))
          /\ LeavesLedger(history(ADMIN_PIN))
          /\ state(ADMIN_PIN).siteState
                 = [siteState EXCEPT !.totalAmountToday = state(ADMIN_PIN).siteState.totalAmountToday]
          /\ state(ADMIN_PIN).transactionHistory = transactionHistory)
    /\ [][AdminStep => UNCHANGED <<transactionHistory, handlers>>]_vars

\* With a claim still awaiting the provider, the site was turned off, the
\* limit set to 0, the count reset after a counted claim and the state read:
\* the counted claim is still in the log.
C19_Witness ==
    /\ ~Online
    /\ siteState.claimLimit = 0
    /\ siteState.claimsToday = 0
    /\ siteState.totalAmountToday = AMOUNT
    /\ Len(transactionHistory) = 1
    /\ transactionHistory[1].mobile_number = UserPhone
    /\ transactionHistory[1].status = "Success"
    /\ Outstanding

====
